---- MODULE Spec2Model ----
(***************************************************************************)
(* A model of the iceberk feature pipeline (pipeline.py, mathutil.py).     *)
(*                                                                         *)
(*   SpecTrain    ConvLayer.train run by every worker on the same layer    *)
(*   SpecSampler  mathutil.ReservoirSampler: consider / num_considered /   *)
(*                get                                                      *)
(*   SpecGemm     mathutil.gemm on numpy arrays with strides and dtypes    *)
(*   SpecMpi      mathutil.mpi_mean, mpi_cov and PcaTrainer.train run by   *)
(*                every worker on its shard                                *)
(*   SpecDataset  ConvLayer.process_dataset run by every worker            *)
(*   SpecSample   Extractor.sample on one worker                           *)
(*   SpecEncoder  train and process of the feature encoders                *)
(*   SpecPatch    PatchExtractor.process                                   *)
(*                                                                         *)
(* Indices of components are the zero-based indices of the source.         *)
(***************************************************************************)
EXTENDS Integers, Sequences, FiniteSets, TLC

\* ------------------------------------------------------------------ bounds
NumWorkers == 2
MaxLayerLen == 4
MaxShard == 1
MaxCapacity == 2
MaxWidth == 2
MaxBatch == 3
MaxConsidered == 5
MaxDim == 2

\* the most rows of the data the workers share in mpi_mean and mpi_cov
MaxData == 3

\* the most images of a shard in process_dataset
MaxImages == 2

\* the most rows of an image given to an encoder
MaxRows == 2

\* the largest side of a patch, the largest stride and the largest side of an
\* image of PatchExtractor
MaxPatch == 2

MaxStride == 2

MaxSide == 4

VARIABLES
    layer,          \* the ConvLayer: the list of its components
    dataset_size,   \* dataset.size() of every worker (its local shard)
    pc,             \* where every worker stands in ConvLayer.train
    loop_i,         \* the loop variable i of ConvLayer.train
    patches,        \* the local variable patches of ConvLayer.train
    dictionary,     \* component.dictionary of every component, per worker
    arrived,        \* number of mpi.barrier() calls a worker has issued
    raised,         \* the exception that ended the worker's call, or "None"
    log,            \* per worker: the calls ConvLayer.train has made so far
    num_samples,    \* ReservoirSampler._num_samples
    current,        \* ReservoirSampler._current
    data,           \* ReservoirSampler._data: None or its num_samples rows
    stream,         \* the rows passed to consider so far
    total,          \* the number of rows passed to consider so far
    result,         \* the last call on the sampler and what it returned
    gemm_args,      \* the arguments alpha, A, B, dtype, out of a gemm call
    gemm_ret,       \* what the gemm call did: exception, value, copies made
    mpi_fn,         \* the function every worker runs: mpi_mean, mpi_cov or
                    \* PcaTrainer.train
    shard,          \* the local data [n_i, D] of every worker
    mpi_pc,         \* where every worker stands in that function
    sent,           \* per worker: what it passed to its collectives, in order
    loc,            \* per worker: its local variables and its return value
    as_list,        \* the argument as_list of ConvLayer.process_dataset
    self_,          \* a pipeline component: its class, specs and dictionary
    call            \* the last call on the component: input, output, exception

trainVars == <<layer, dataset_size, pc, loop_i, patches, dictionary,
               arrived, raised, log>>

samplerVars == <<num_samples, current, data, stream, total, result>>

gemmVars == <<gemm_args, gemm_ret>>

mpiVars == <<mpi_fn, shard, mpi_pc, sent, loc>>

componentVars == <<self_, call>>

vars == <<trainVars, samplerVars, gemmVars, mpiVars, as_list, componentVars>>

Workers == 1..NumWorkers

\* --------------------------------------------------------------- components
\* A component is its class (as isinstance sees it) and, for a feature
\* encoder, whether it was constructed with a trainer.
Components ==
    {[cls |-> c, trainer |-> FALSE] : c \in {"Extractor", "Normalizer", "Pooler"}}
    \cup {[cls |-> "FeatureEncoder", trainer |-> t] : t \in BOOLEAN}

Layers == UNION {[1..n -> Components] : n \in 0..MaxLayerLen}

\* the isinstance test always succeeding
IsExtractor_Always(component) == TRUE

IsExtractor(component) == component.cls = "Extractor"

IsPooler(component) == component.cls = "Pooler"

\* self[i], zero-based as in the source
At(self, i) == self[i + 1]

\* The dictionary of a component: <<>> is None, <<b>> the dictionary a trainer
\* returned for the batch b.
None == <<>>

\* A patch batch is the sampled batch followed by the indices of the
\* components whose process it went through, in order.
SampledBatch == <<>>

Event(op, i, batch) == [op |-> op, i |-> i, batch |-> batch]

\* Extractor.sample and PatchExtractor.sample on a shard of `size` images:
\* with no image the reservoir is never allocated and sampler.get() indexes
\* None (TypeError); PatchExtractor draws np.random.randint(0, ...) which
\* raises ValueError.
SampleRaises(size) == size = 0

SampleErrors == {"TypeError", "ValueError"}

\* Component.train of each class: the exception it raises, or "None".
TrainRaises(component) ==
    IF component.cls \in {"Extractor", "Pooler"} THEN "RuntimeError" ELSE "None"

\* FeatureEncoder.train: the dictionary after train(incoming_patches).
FeatureEncoder_train(component, dict, incoming_patches) ==
    IF component.cls = "FeatureEncoder" /\ component.trainer
    THEN <<incoming_patches>>
    ELSE dict

\* component.process(patches) raises when an encoder has no dictionary
\* (W, b = None; None.T; ...).
ProcessRaises(component, dict) ==
    component.cls = "FeatureEncoder" /\ dict = None

\* the processed output thrown away: patches stays what it was
Process_Dropped(i, batch) == batch

\* component.process(patches): the batch that comes out.
Process(i, batch) == Append(batch, i)

\* line 98: nothing to train
NothingToTrain(self) == Len(self) = 1 \/ IsPooler(At(self, 1))

\* the break of line 107 without its isinstance(self[i+1], Pooler) test
StopTraining_LastOnly(self, i) == i = Len(self) - 1

\* line 107: stop after training component i
StopTraining(self, i) == i = Len(self) - 1 \/ IsPooler(At(self, i + 1))

\* ------------------------------------------------------- ConvLayer.train
InitTrain ==
    /\ layer \in Layers
    /\ dataset_size \in [Workers -> 0..MaxShard]
    /\ pc = [w \in Workers |-> "start"]
    /\ loop_i = [w \in Workers |-> 0]
    /\ patches = [w \in Workers |-> SampledBatch]
    /\ dictionary = [w \in Workers |-> [i \in 0..(Len(layer) - 1) |-> None]]
    /\ arrived = [w \in Workers |-> 0]
    /\ raised = [w \in Workers |-> "None"]
    /\ log = [w \in Workers |-> <<>>]

Raise(w, exc) ==
    /\ pc' = [pc EXCEPT ![w] = "raised"]
    /\ raised' = [raised EXCEPT ![w] = exc]

\* lines 90-95: the empty layer returns, a layer that does not start with an
\* Extractor raises ValueError
TrainEnter(w) ==
    /\ pc[w] = "start"
    /\ IF Len(layer) = 0
       THEN pc' = [pc EXCEPT ![w] = "done"] /\ UNCHANGED raised
       ELSE IF ~IsExtractor(At(layer, 0))
            THEN Raise(w, "ValueError")
            ELSE pc' = [pc EXCEPT ![w] = "sample"] /\ UNCHANGED raised
    /\ UNCHANGED <<layer, dataset_size, loop_i, patches, dictionary, arrived, log>>
    /\ UNCHANGED <<samplerVars, gemmVars, mpiVars, as_list, componentVars>>

\* lines 96-100: sample the patches, return when there is nothing to train
TrainSample(w) ==
    /\ pc[w] = "sample"
    /\ IF SampleRaises(dataset_size[w])
       THEN /\ \E exc \in SampleErrors : Raise(w, exc)
            /\ UNCHANGED <<loop_i, patches, log>>
       ELSE /\ patches' = [patches EXCEPT ![w] = SampledBatch]
            /\ log' = [log EXCEPT ![w] = Append(@, Event("sample", 0, SampledBatch))]
            /\ IF NothingToTrain(layer)
               THEN pc' = [pc EXCEPT ![w] = "done"] /\ UNCHANGED loop_i
               ELSE /\ pc' = [pc EXCEPT ![w] = "barrier"]
                    /\ loop_i' = [loop_i EXCEPT ![w] = 1]
            /\ UNCHANGED raised
    /\ UNCHANGED <<layer, dataset_size, dictionary, arrived>>
    /\ UNCHANGED <<samplerVars, gemmVars, mpiVars, as_list, componentVars>>

\* line 104: the worker calls mpi.barrier()
TrainBarrier(w) ==
    /\ pc[w] = "barrier"
    /\ arrived' = [arrived EXCEPT ![w] = @ + 1]
    /\ log' = [log EXCEPT ![w] = Append(@, Event("barrier", loop_i[w], patches[w]))]
    /\ pc' = [pc EXCEPT ![w] = "train"]
    /\ UNCHANGED <<layer, dataset_size, loop_i, patches, dictionary, raised>>
    /\ UNCHANGED <<samplerVars, gemmVars, mpiVars, as_list, componentVars>>

\* mpi.barrier() returns once every worker has issued this barrier
BarrierReleased(w) == \A v \in Workers : arrived[v] >= arrived[w]

\* lines 105-109: the barrier returns, component.train(patches), then break
\* when the component is the last one or a Pooler follows
TrainComponent(w) ==
    /\ pc[w] = "train"
    /\ BarrierReleased(w)
    /\ LET i == loop_i[w]
           component == At(layer, i)
       IN  /\ log' = [log EXCEPT ![w] = Append(@, Event("train", i, patches[w]))]
           /\ IF TrainRaises(component) # "None"
              THEN Raise(w, TrainRaises(component)) /\ UNCHANGED dictionary
              ELSE /\ dictionary' = [dictionary EXCEPT ![w][i] =
                           FeatureEncoder_train(component, @, patches[w])]
                   /\ pc' = [pc EXCEPT ![w] =
                           IF StopTraining(layer, i) THEN "done" ELSE "process"]
                   /\ UNCHANGED raised
    /\ UNCHANGED <<layer, dataset_size, loop_i, patches, arrived>>
    /\ UNCHANGED <<samplerVars, gemmVars, mpiVars, as_list, componentVars>>

\* lines 110-112: patches = component.process(patches), next i
TrainProcess(w) ==
    /\ pc[w] = "process"
    /\ LET i == loop_i[w]
           component == At(layer, i)
       IN  IF ProcessRaises(component, dictionary[w][i])
           THEN Raise(w, "TypeError") /\ UNCHANGED <<loop_i, patches, log>>
           ELSE /\ patches' = [patches EXCEPT ![w] = Process(i, @)]
                /\ log' = [log EXCEPT ![w] = Append(@, Event("process", i, patches[w]))]
                /\ loop_i' = [loop_i EXCEPT ![w] = i + 1]
                /\ pc' = [pc EXCEPT ![w] = "barrier"]
                /\ UNCHANGED raised
    /\ UNCHANGED <<layer, dataset_size, dictionary, arrived>>
    /\ UNCHANGED <<samplerVars, gemmVars, mpiVars, as_list, componentVars>>

NextTrain ==
    \E w \in Workers :
        \/ TrainEnter(w)
        \/ TrainSample(w)
        \/ TrainBarrier(w)
        \/ TrainComponent(w)
        \/ TrainProcess(w)

\* no ConvLayer.train is running
IdleTrain ==
    /\ layer = <<>>
    /\ dataset_size = [w \in Workers |-> 0]
    /\ pc = [w \in Workers |-> "idle"]
    /\ loop_i = [w \in Workers |-> 0]
    /\ patches = [w \in Workers |-> SampledBatch]
    /\ dictionary = [w \in Workers |-> <<>>]
    /\ arrived = [w \in Workers |-> 0]
    /\ raised = [w \in Workers |-> "None"]
    /\ log = [w \in Workers |-> <<>>]

\* ------------------------------------------------ claims on ConvLayer.train
Finished(w) == pc[w] \in {"done", "raised"}

LogIndices(w, op) == {k \in 1..Len(log[w]) : log[w][k].op = op}

\* the sampled batch passed through process of the components 1..i-1
Chain(i) == [j \in 1..(i - 1) |-> j]

Trainable(component) == component.cls \in {"Normalizer", "FeatureEncoder"}

\* C1: ConvLayer.train never calls train on a Pooler, nor on a component
\* that stands after the first Pooler of the layer: at every train call on
\* component i, no component at the positions 0..i is a Pooler.
C1_NoTrainAtOrAfterPooler ==
    \A w \in Workers : \A k \in LogIndices(w, "train") :
        \A j \in 0..log[w][k].i : ~IsPooler(At(layer, j))

\* C1 witness: a worker has trained and returned on a layer in which a
\* trainable component stands after a Pooler.
C1_Witness ==
    \E w \in Workers :
        /\ pc[w] = "done"
        /\ LogIndices(w, "train") # {}
        /\ \E j, k \in 0..(Len(layer) - 1) :
              j < k /\ IsPooler(At(layer, j)) /\ Trainable(At(layer, k))

\* C2: the batch a train call on component i receives is the sampled batch
\* passed, in order, through process of the components 1..i-1, each of them
\* trained before its process was applied; and process replaces the batch
\* only for a component that is neither the last one nor followed by a
\* Pooler.
C2_TrainBatchIsProcessedChain ==
    \A w \in Workers : \A k \in 1..Len(log[w]) :
        LET e == log[w][k] IN
        /\ e.op = "train" =>
              /\ e.batch = Chain(e.i)
              /\ \A j \in 1..(e.i - 1) :
                    \E p, q \in 1..k :
                        /\ p < q
                        /\ log[w][p].op = "train" /\ log[w][p].i = j
                        /\ log[w][q].op = "process" /\ log[w][q].i = j
                        /\ log[w][q].batch = Chain(j)
        /\ e.op = "process" =>
              /\ e.i # Len(layer) - 1
              /\ ~IsPooler(At(layer, e.i + 1))
              /\ patches[w] # e.batch

\* C2 witness: a train call on the third trained component, whose batch went
\* through two components.
C2_Witness ==
    \E w \in Workers : \E k \in LogIndices(w, "train") :
        log[w][k].i = 3 /\ Len(log[w][k].batch) = 2

\* C3: every worker issues one barrier right before each component.train and
\* nowhere else, and the number of barriers a worker issues does not depend
\* on its shard: no worker issues more barriers than a worker whose call has
\* ended.
C3_BarriersIdenticalOnAllWorkers ==
    /\ \A w \in Workers : \A k \in LogIndices(w, "train") :
          k > 1 /\ log[w][k - 1].op = "barrier" /\ log[w][k - 1].i = log[w][k].i
    /\ \A w \in Workers : \A k \in LogIndices(w, "barrier") :
          k = Len(log[w]) \/ log[w][k + 1].op = "train"
    /\ \A w \in Workers : arrived[w] = Cardinality(LogIndices(w, "barrier"))
    /\ \A w, v \in Workers : Finished(w) => arrived[v] <= arrived[w]

\* C4: on a non-empty layer whose first component is not an Extractor the
\* call raises ValueError with nothing sampled, no barrier issued, nothing
\* trained and no dictionary changed.
C4_NoExtractorRaisesFirst ==
    \A w \in Workers :
        (Len(layer) > 0 /\ ~(At(layer, 0).cls = "Extractor") /\ pc[w] # "start") =>
            /\ pc[w] = "raised"
            /\ raised[w] = "ValueError"
            /\ log[w] = <<>>
            /\ arrived[w] = 0
            /\ \A i \in 0..(Len(layer) - 1) : dictionary[w][i] = None

\* C4 witness: a worker's call has raised on a layer that starts with a
\* Pooler and holds an encoder with a trainer.
C4_Witness ==
    \E w \in Workers :
        /\ pc[w] = "raised"
        /\ Len(layer) > 1
        /\ IsPooler(At(layer, 0))
        /\ At(layer, 1) = [cls |-> "FeatureEncoder", trainer |-> TRUE]

\* C5: train on a feature encoder constructed without a trainer aborts and
\* surfaces a configuration error: after such a train call the worker's call
\* has raised ConfigurationError.
C5_TrainWithoutTrainerRaises ==
    \A w \in Workers : \A k \in LogIndices(w, "train") :
        At(layer, log[w][k].i) = [cls |-> "FeatureEncoder", trainer |-> FALSE] =>
            pc[w] = "raised" /\ raised[w] = "ConfigurationError"

\* ------------------------------------------------------- ReservoirSampler

Min(a, b) == IF a < b THEN a ELSE b

\* the rows of a feature batch whose feature.shape[1:] is (width,): two
\* different rows of every shape
Rows(width) == {[k \in 1..width |-> v] : v \in 0..1}

\* feature batches of shape (batch_size, width)
Batches(width) == UNION {[1..b -> Rows(width)] : b \in 0..MaxBatch}

\* self._data.shape[1:]
Width(d) == Len(d[1])

\* feature[a:], zero-based
From(feature, a) == SubSeq(feature, a + 1, Len(feature))

\* feature[:count]
Upto(feature, count) == SubSeq(feature, 1, count)

\* the elif of lines 122-125 never taken
ShapeMismatch_Never(d, width) == FALSE

\* lines 119-125: an allocated reservoir and a feature of another row shape
ShapeMismatch(d, width) == d # None /\ Width(d) # width

\* lines 119-121: np.empty allocates num_samples rows of the feature's shape
\* whose contents are whatever the memory holds
Allocations(d, n, width) == IF d = None THEN [1..n -> Rows(width)] ELSE {d}

\* feature[selected] for the boolean mask selected (the set of its True
\* positions): the selected rows in their order
RECURSIVE Masked(_, _)
Masked(feature, selected) ==
    IF feature = <<>> THEN <<>>
    ELSE LET rest == Masked(Upto(feature, Len(feature) - 1), selected)
         IN  IF Len(feature) \in selected
             THEN Append(rest, feature[Len(feature)])
             ELSE rest

\* line 136: self._data[slots] = rows, assigned in order, the last
\* assignment to a slot wins; slots are zero-based
RECURSIVE Overwrite(_, _, _)
Overwrite(d, slots, rows) ==
    IF rows = <<>> THEN d
    ELSE Overwrite([d EXCEPT ![slots[1] + 1] = rows[1]], Tail(slots), Tail(rows))

\* line 143: self._data[cur:cur+count] = feature[:count]
Fill(d, cur, feature, count) ==
    [k \in 1..Len(d) |-> IF k > cur /\ k <= cur + count THEN feature[k - cur] ELSE d[k]]

\* line 138 adding the number of accepted rows instead of the batch size
CurrentAfterFull_Accepted(cur, batch_size, count) == cur + count

\* line 138: self._current += batch_size
CurrentAfterFull(cur, batch_size, count) == cur + batch_size

\* lines 127-138: the reservoir is full; every outcome of np.random.rand
\* (the mask selected) and np.random.randint (the slots)
ConsiderFull(d, cur, n, feature) ==
    UNION {
        {[data |-> Overwrite(d, slots, Masked(feature, selected)),
          current |-> CurrentAfterFull(cur, Len(feature), Cardinality(selected))] :
            slots \in [1..Cardinality(selected) -> 0..(n - 1)]} :
        selected \in SUBSET (1..Len(feature))}

\* lines 126-147: consider on an allocated reservoir of matching shape; the
\* recursive call of line 147 finds the reservoir full
ConsiderOutcomes(d, cur, n, feature) ==
    IF cur >= n
    THEN ConsiderFull(d, cur, n, feature)
    ELSE LET count == Min(n - cur, Len(feature))
             filled == Fill(d, cur, feature, count)
         IN  IF count < Len(feature)
             THEN ConsiderFull(filled, cur + count, n, From(feature, count))
             ELSE {[data |-> filled, current |-> cur + count]}

\* the get of lines 158-162 without the test on self._current
Get_Whole(d, cur, n) == d

\* lines 158-162: get() on an allocated reservoir
Get(d, cur, n) == IF cur < n THEN Upto(d, cur) ELSE d

Range(f) == {f[k] : k \in DOMAIN f}

Call(op, width, exc, value) == [op |-> op, width |-> width, exc |-> exc, value |-> value]

\* __init__, lines 108-113
InitSampler ==
    /\ num_samples \in 1..MaxCapacity
    /\ current = 0
    /\ data = None
    /\ stream = {}
    /\ total = 0
    /\ result = Call("init", 0, "None", <<>>)

\* consider(feature), lines 115-147
Consider ==
    \E width \in 1..MaxWidth : \E feature \in Batches(width) :
        /\ total + Len(feature) <= MaxConsidered
        /\ IF ShapeMismatch(data, width)
           THEN /\ result' = Call("consider", width, "ValueError", <<>>)
                /\ UNCHANGED <<num_samples, current, data, stream, total>>
           ELSE \E allocated \in Allocations(data, num_samples, width) :
                \E out \in ConsiderOutcomes(allocated, current, num_samples, feature) :
                    /\ data' = out.data
                    /\ current' = out.current
                    /\ stream' = stream \cup Range(feature)
                    /\ total' = total + Len(feature)
                    /\ result' = Call("consider", width, "None", <<>>)
                    /\ UNCHANGED num_samples
    /\ UNCHANGED <<trainVars, gemmVars, mpiVars, as_list, componentVars>>

\* num_considered(), lines 149-152
NumConsidered ==
    /\ result' = Call("num_considered", 0, "None", <<current>>)
    /\ UNCHANGED <<num_samples, current, data, stream, total>>
    /\ UNCHANGED <<trainVars, gemmVars, mpiVars, as_list, componentVars>>

\* get(), lines 154-162; before the first consider self._data is None and
\* the slice raises TypeError
GetCall ==
    /\ result' = IF data = None
                 THEN Call("get", 0, "TypeError", <<>>)
                 ELSE Call("get", 0, "None", Get(data, current, num_samples))
    /\ UNCHANGED <<num_samples, current, data, stream, total>>
    /\ UNCHANGED <<trainVars, gemmVars, mpiVars, as_list, componentVars>>

NextSampler == Consider \/ NumConsidered \/ GetCall

C7_GetWithinStream ==
    (result.op = "get" /\ result.exc = "None") =>
        \A k \in 1..Len(result.value) : result.value[k] \in stream

\* C7 witness: get() answered on a full reservoir after at least two more
\* rows, of which two differ, went through the replacement branch.
C7_Witness ==
    /\ result.op = "get"
    /\ result.exc = "None"
    /\ num_samples >= 2
    /\ total >= num_samples + 2
    /\ Cardinality(stream) >= 2
    /\ Cardinality(Range(result.value)) >= 2

\* C8: a consider call whose row shape differs from the shape of the
\* allocated reservoir raises ValueError and leaves the reservoir and the
\* considered count as they were.
C8_MismatchRaisesAndKeeps ==
    [][(result'.op = "consider" /\ data # None /\ result'.width # Width(data)) =>
          (result'.exc = "ValueError" /\ data' = data /\ current' = current)]_vars

\* C8 witness: a consider call has raised on a reservoir that holds rows.
C8_Witness ==
    /\ result.op = "consider"
    /\ result.exc = "ValueError"
    /\ current > 0
    /\ result.width # Width(data)


\* ------------------------------------------------------------ numpy arrays
\* An array is a view on a storage: ndim, shape (rows, columns), strides (in
\* elements), dtype, the identity buf of its storage and the storage mem.
Dtypes == {"float32", "float64"}

\* the memory an array of `size` elements is created with
Mem(seed, size) == [p \in 1..size |-> (seed + p) % 4]

\* order "C": row-major, "F": column-major, "N": the view X[:, ::2] of a
\* row-major X with twice the columns (neither)
MkArray(buf, ndim, r, c, order, dtype, seed) ==
    [ndim |-> ndim, shape |-> <<r, c>>,
     strides |-> CASE order = "C" -> <<c, 1>>
                   [] order = "F" -> <<1, r>>
                   [] order = "N" -> <<2 * c, 2>>,
     dtype |-> dtype, buf |-> buf,
     mem |-> Mem(seed, IF order = "N" THEN 2 * r * c ELSE r * c)]

\* the argument out=None
NoArray == [ndim |-> 0]

\* a[i, j], zero-based
Elem(a, i, j) == a.mem[1 + i * a.strides[1] + j * a.strides[2]]

\* a.flags['C_CONTIGUOUS']: axes of length 1 do not count, and an array with
\* no element is contiguous both ways
IsC(a) ==
    \/ a.shape[1] = 0 \/ a.shape[2] = 0
    \/ /\ a.shape[2] = 1 \/ a.strides[2] = 1
       /\ a.shape[1] = 1 \/ a.strides[1] = a.shape[2]

\* a.flags['F_CONTIGUOUS']
IsF(a) ==
    \/ a.shape[1] = 0 \/ a.shape[2] = 0
    \/ /\ a.shape[1] = 1 \/ a.strides[1] = 1
       /\ a.shape[2] = 1 \/ a.strides[2] = a.shape[1]

\* a.T: the same storage with shape and strides reversed
T(a) == [a EXCEPT !.shape = <<a.shape[2], a.shape[1]>>,
                  !.strides = <<a.strides[2], a.strides[1]>>]

\* the value v stored with the given dtype: float32 holds integers exactly up
\* to 2^24 and every second one up to 2^25
Cast(v, dtype) ==
    IF dtype = "float32" /\ (v > 2^24 \/ v < -(2^24)) THEN (v \div 2) * 2 ELSE v

\* a new storage holding the elements of a with the given dtype, in the
\* order of a when a is contiguous
Copy(a, dtype) ==
    LET r == a.shape[1]
        c == a.shape[2]
        colmajor == IsF(a) /\ ~IsC(a)
    IN  [ndim |-> a.ndim, shape |-> a.shape,
         strides |-> IF colmajor THEN <<1, r>> ELSE <<c, 1>>,
         dtype |-> dtype, buf |-> <<"copy", a.buf>>,
         mem |-> [p \in 1..(r * c) |->
                    IF colmajor
                    THEN Cast(Elem(a, (p - 1) % r, (p - 1) \div r), dtype)
                    ELSE Cast(Elem(a, (p - 1) \div c, (p - 1) % c), dtype)]]

\* np.asarray(a, dtype=dtype), lines 21-24: a itself when the dtype is
\* already right
AsArray(a, dtype) == IF a.dtype # dtype THEN Copy(a, dtype) ELSE a

\* the sum of f[0] .. f[k-1]
RECURSIVE Sum(_, _)
Sum(f, k) == IF k = 0 THEN 0 ELSE f[k - 1] + Sum(f, k - 1)

\* ------------------------------------------------------- fblas.dgemm/sgemm
\* The wrapper takes an argument in place when it is Fortran contiguous and
\* of the routine's dtype, and works on a converted copy otherwise.
InPlace(a, dtype) == IsF(a) /\ a.dtype = dtype

\* element (i, j) of the column-major matrix the routine reads for a
FElem(a, dtype, i, j) ==
    IF InPlace(a, dtype) THEN a.mem[1 + i + j * a.shape[1]] ELSE Cast(Elem(a, i, j), dtype)

OpShape(a, trans) == IF trans = 1 THEN <<a.shape[2], a.shape[1]>> ELSE a.shape

OpElem(a, dtype, trans, i, j) ==
    IF trans = 1 THEN FElem(a, dtype, j, i) ELSE FElem(a, dtype, i, j)

\* gemm(alpha, a, b, beta, c, trans_a, trans_b, overwrite_c) with beta = 0:
\* alpha * op(a) * op(b) as a column-major array, written into the storage
\* of c when c is given, taken in place and overwrite_c is set
fblas_gemm(dtype, alpha, a, b, c, trans_a, trans_b, overwrite_c) ==
    LET sa == OpShape(a, trans_a)
        sb == OpShape(b, trans_b)
        m == sa[1]
        n == sb[2]
    IN  IF sa[2] # sb[1] \/ (c # NoArray /\ c.shape # <<m, n>>)
        THEN [exc |-> "error", value |-> NoArray, copied |-> {}]
        ELSE [exc |-> "None",
              value |->
                [ndim |-> 2, shape |-> <<m, n>>, strides |-> <<1, m>>,
                 dtype |-> dtype,
                 buf |-> IF c # NoArray /\ overwrite_c /\ InPlace(c, dtype)
                         THEN c.buf ELSE <<"blas">>,
                 mem |-> [p \in 1..(m * n) |->
                    LET i == (p - 1) % m
                        j == (p - 1) \div m
                    IN  Cast(alpha * Sum([k \in 0..(sa[2] - 1) |->
                                OpElem(a, dtype, trans_a, i, k)
                                    * OpElem(b, dtype, trans_b, k, j)], sa[2]),
                             dtype)]],
              copied |-> {x.buf : x \in {y \in {a, b} : ~InPlace(y, dtype)}}]

\* ------------------------------------------------------------ mathutil.gemm
\* lines 29-38 testing C_CONTIGUOUS where the source tests F_CONTIGUOUS
Transposed_IfNotC(a) == ~IsC(a)

\* lines 29 and 34: the operand is replaced by its transpose view
Transposed(a) == ~IsF(a)

\* line 47 passing each operand's own flag instead of their exchange
TransFlags_Own(trans_a, trans_b) == <<trans_a, trans_b>>

\* lines 47 and 54: B comes first and takes trans_b, A second with trans_a
TransFlags(trans_a, trans_b) == <<trans_b, trans_a>>

GemmRaise(exc) == [exc |-> exc, value |-> NoArray, copied |-> {}]

\* gemm(alpha, A, B, dtype, out), lines 4-55
gemm(alpha, A, B, dtype_arg, out) ==
    IF A.ndim # 2 \/ B.ndim # 2 THEN GemmRaise("TypeError")
    ELSE LET dtype == IF dtype_arg = "None" THEN A.dtype ELSE dtype_arg IN
    IF dtype # "float32" /\ dtype # "float64" THEN GemmRaise("TypeError")
    ELSE IF ~(IsF(A) \/ IsC(A)) \/ ~(IsF(B) \/ IsC(B)) THEN GemmRaise("TypeError")
    ELSE LET A1 == AsArray(A, dtype)
             B1 == AsArray(B, dtype)
             B2 == IF Transposed(B1) THEN T(B1) ELSE B1
             trans_b == IF Transposed(B1) THEN 0 ELSE 1
             A2 == IF Transposed(A1) THEN T(A1) ELSE A1
             trans_a == IF Transposed(A1) THEN 0 ELSE 1
             flags == TransFlags(trans_a, trans_b)
             converted == {x.buf : x \in {y \in {A, B} : y.dtype # dtype}}
         IN  IF out = NoArray
             THEN LET r == fblas_gemm(dtype, alpha, B2, A2, NoArray,
                                      flags[1], flags[2], FALSE)
                  IN  IF r.exc # "None" THEN r
                      ELSE [exc |-> "None", value |-> T(r.value),
                            copied |-> (r.copied \cup converted) \cap {A.buf, B.buf}]
             ELSE IF out.dtype # dtype THEN GemmRaise("TypeError")
             ELSE IF ~IsC(out) THEN GemmRaise("TypeError")
             ELSE LET r == fblas_gemm(dtype, alpha, B2, A2, T(out),
                                      flags[1], flags[2], TRUE)
                  IN  IF r.exc # "None" THEN r
                      ELSE [exc |-> "None",
                            value |-> IF r.value.buf = out.buf
                                      THEN [out EXCEPT !.mem = r.value.mem]
                                      ELSE out,
                            copied |-> (r.copied \cup converted) \cap {A.buf, B.buf}]

\* dot(A, B), lines 57-69
dot(A, B) == gemm(1, A, B, "None", NoArray)

\* the operands: 2-D arrays of every order, and 1-D arrays of length r
Operands(buf, r, c, seed) ==
    {MkArray(buf, 2, r, c, order, dtype, seed) :
        order \in {"C", "F", "N"}, dtype \in Dtypes}
    \cup (IF c = 1 THEN {MkArray(buf, 1, r, 1, "C", "float64", seed)} ELSE {})

\* the output buffers: every order and dtype, of the shape of the product
Outs(r, c) ==
    {NoArray} \cup
    {MkArray(<<"out">>, 2, r, c, order, dtype, 3) :
        order \in {"C", "F"}, dtype \in Dtypes}

Dims == 1..MaxDim

NotCalled == [exc |-> "not called", value |-> NoArray, copied |-> {}]

InitGemm ==
    /\ \E m \in Dims, k \in Dims, k2 \in Dims, n \in Dims, seed \in 0..1 :
       \E alpha \in {1, 2},
          A \in Operands(<<"A">>, m, k, seed),
          B \in Operands(<<"B">>, k2, n, 2),
          dtype \in {"None", "float32", "float64", "int64"},
          out \in Outs(m, n) :
            gemm_args = [alpha |-> alpha, A |-> A, B |-> B,
                         dtype |-> dtype, out |-> out]
    /\ gemm_ret = NotCalled

\* the call gemm(alpha, A, B, dtype, out)
GemmCall ==
    /\ gemm_ret = NotCalled
    /\ gemm_ret' = gemm(gemm_args.alpha, gemm_args.A, gemm_args.B,
                        gemm_args.dtype, gemm_args.out)
    /\ UNCHANGED gemm_args
    /\ UNCHANGED <<trainVars, samplerVars, mpiVars, as_list, componentVars>>

NextGemm == GemmCall

\* no gemm call
IdleGemm ==
    /\ gemm_args = <<>>
    /\ gemm_ret = NotCalled

\* ---------------------------------------------------------- claims on gemm
\* the dtype the product is computed in (lines 13-14)
EffectiveDtype(args) == IF args.dtype = "None" THEN args.A.dtype ELSE args.dtype

Contiguous(a) == IsC(a) \/ IsF(a)

\* 2-D operands, each row-major or column-major contiguous, of compatible
\* shapes, a float dtype, and no output buffer or one gemm accepts
Accepted(args) ==
    /\ args.A.ndim = 2 /\ args.B.ndim = 2
    /\ Contiguous(args.A) /\ Contiguous(args.B)
    /\ args.A.shape[2] = args.B.shape[1]
    /\ EffectiveDtype(args) \in Dtypes
    /\ args.out # NoArray =>
          args.out.dtype = EffectiveDtype(args) /\ IsC(args.out)

\* element (i, j) of alpha * A * B by the triple loop
Naive(alpha, A, B, i, j) ==
    alpha * Sum([k \in 0..(A.shape[2] - 1) |-> Elem(A, i, k) * Elem(B, k, j)],
                A.shape[2])

\* C9: for 2-D operands A (m x k) and B (k x n), each row-major or
\* column-major contiguous (or both), gemm returns the naive product
\* alpha*A*B as a row-major m x n array, with and without an output buffer
\* (the buffer itself is returned, holding the product).
C9_GemmIsNaiveProductRowMajor ==
    (gemm_ret # NotCalled /\ Accepted(gemm_args)) =>
        LET A == gemm_args.A
            B == gemm_args.B
            m == A.shape[1]
            n == B.shape[2]
            value == gemm_ret.value
        IN  /\ gemm_ret.exc = "None"
            /\ value.shape = <<m, n>>
            /\ IsC(value)
            /\ \A i \in 0..(m - 1), j \in 0..(n - 1) :
                  Elem(value, i, j) = Naive(gemm_args.alpha, A, B, i, j)
            /\ gemm_args.out # NoArray => value.buf = gemm_args.out.buf

\* C9 witness: a product returned in a supplied buffer for a single-row A
\* (row-major and column-major at once) and a column-major 2 x 2 B.
C9_Witness ==
    /\ gemm_ret.exc = "None"
    /\ Accepted(gemm_args)
    /\ gemm_args.A.shape = <<1, 2>>
    /\ IsC(gemm_args.A) /\ IsF(gemm_args.A)
    /\ gemm_args.B.shape = <<2, 2>>
    /\ IsF(gemm_args.B) /\ ~IsC(gemm_args.B)
    /\ gemm_args.out # NoArray
    /\ gemm_args.alpha = 2

\* C10 as stated: for every accepted pair of operands and every accepted
\* dtype argument gemm copies the storage of neither operand.
C10_NeverCopies ==
    gemm_ret.exc = "None" => gemm_ret.copied = {}

\* C10 amended: gemm copies the storage of neither operand when both operands
\* already have the dtype the product is computed in; the views it takes
\* (A.T, B.T) share the operand's storage.
C10_NoCopyWhenDtypesMatch ==
    (gemm_ret.exc = "None"
        /\ gemm_args.A.dtype = EffectiveDtype(gemm_args)
        /\ gemm_args.B.dtype = EffectiveDtype(gemm_args)) =>
            gemm_ret.copied = {}

\* C10 witness: a product of a column-major A and a row-major B of the
\* dtype asked for, computed with no copy.
C10_Witness ==
    /\ gemm_ret.exc = "None"
    /\ gemm_args.dtype = "float32"
    /\ gemm_args.A.dtype = "float32" /\ gemm_args.B.dtype = "float32"
    /\ gemm_args.A.shape = <<2, 2>> /\ gemm_args.B.shape = <<2, 2>>
    /\ IsF(gemm_args.A) /\ ~IsC(gemm_args.A)
    /\ IsC(gemm_args.B) /\ ~IsF(gemm_args.B)
    /\ gemm_ret.copied = {}

\* ----------------------------------------------- mpi_mean, mpi_cov, PcaTrainer
\* Numbers are exact: a real value is a pair of an integer numerator and an
\* integer denominator, a matrix is a sequence of rows, a vector a matrix of
\* one row.

\* mpi.is_root() holds on the worker of rank 0, which is also the root of
\* every bcast
Root == CHOOSE w \in Workers : \A v \in Workers : w <= v

\* line 481 without its test
is_root_Any(w) == TRUE

\* mpi.is_root(), line 481
is_root(w) == w = Root

\* the rows a shard is made of
DataRows == {<<0, 1>>, <<2, 1>>, <<1, 3>>}

\* a C-contiguous float64 array [Len(rows), c] holding the rows
FromRows(buf, rows, c) ==
    [ndim |-> 2, shape |-> <<Len(rows), c>>, strides |-> <<c, 1>>,
     dtype |-> "float64", buf |-> buf,
     mem |-> [p \in 1..(Len(rows) * c) |->
                rows[1 + ((p - 1) \div c)][1 + ((p - 1) % c)]]]

\* the rows of a 2-D array
ToRows(a) ==
    [i \in 1..a.shape[1] |-> [j \in 1..a.shape[2] |-> Elem(a, i - 1, j - 1)]]

\* data.sum(0), line 167: zeros when data has no row
SumAxis0(a) ==
    [j \in 1..a.shape[2] |->
        Sum([i \in 0..(a.shape[1] - 1) |-> Elem(a, i, j - 1)], a.shape[1])]

AddMat(x, y) == [i \in DOMAIN x |-> [j \in DOMAIN x[i] |-> x[i][j] + y[i][j]]]

\* every worker has made its k-th collective call
Ready(k) == \A w \in Workers : Len(sent[w]) >= k

RECURSIVE ReduceUpTo(_, _)
ReduceUpTo(k, w) ==
    IF w = Root THEN sent[w][k].value
    ELSE AddMat(ReduceUpTo(k, w - 1), sent[w][k].value)

\* a reduction that keeps the root's contribution only
Allreduce_RootOnly(k) == sent[Root][k].value

\* the result of the k-th collective when it is COMM.Allreduce or
\* COMM.allreduce: the sum of what the workers passed (lines 169-170, 194-195)
Allreduce(k) == ReduceUpTo(k, NumWorkers)

\* the result of the k-th collective when it is COMM.bcast: what the root
\* passed (lines 488-490)
bcast(k) == sent[Root][k].value

\* worker w enters its next collective with the value it passes
Post(w, name, value) ==
    sent' = [sent EXCEPT ![w] = Append(@, [name |-> name, value |-> value])]

\* np.linalg.eigh(covmat) and what line 485 makes of it, as terms that name
\* the worker that computed them
Eigh(w, covmat) ==
    [W |-> [f |-> "W", by |-> w, of |-> covmat],
     eigval |-> [f |-> "eigval", by |-> w, of |-> covmat],
     eigvec |-> [f |-> "eigvec", by |-> w, of |-> covmat]]

\* mathutil.mpi_meancov(incoming_patches), called at line 480: the global
\* mean and covariance, computed with the collectives of mpi_mean and mpi_cov
mpi_meancov(w) == [m |-> loc[w].m, covmat |-> loc[w].covmat]

MpiFunctions == {"mpi_mean", "mpi_cov", "PcaTrainer.train"}

NoLocals ==
    [s |-> None, m |-> None, num_data |-> None, covmat |-> None, W |-> None,
     eigval |-> None, eigvec |-> None, eigh |-> FALSE, ret |-> None]

\* the shards are the consecutive slices of some data, empty slices included,
\* with at least one row in all
InitMpi ==
    /\ mpi_fn \in MpiFunctions
    /\ \E n \in 1..MaxData :
       \E rows \in [1..n -> DataRows] :
       \E cut \in [0..NumWorkers -> 0..n] :
        /\ cut[0] = 0 /\ cut[NumWorkers] = n
        /\ \A w \in Workers : cut[w - 1] <= cut[w]
        /\ shard = [w \in Workers |->
              FromRows(<<"data", w>>,
                       [i \in 1..(cut[w] - cut[w - 1]) |-> rows[cut[w - 1] + i]],
                       Len(rows[1]))]
    /\ mpi_pc = [w \in Workers |-> "Allreduce s_local"]
    /\ sent = [w \in Workers |-> <<>>]
    /\ loc = [w \in Workers |-> NoLocals]

\* mpi_mean lines 167-169: s_local = data.sum(0); Allreduce(s_local, m)
MeanAllreduce(w) ==
    /\ mpi_pc[w] = "Allreduce s_local"
    /\ Post(w, "s_local", <<SumAxis0(shard[w])>>)
    /\ mpi_pc' = [mpi_pc EXCEPT ![w] = "allreduce shape[0]"]
    /\ UNCHANGED <<mpi_fn, shard, loc>>
    /\ UNCHANGED <<trainVars, samplerVars, gemmVars, as_list, componentVars>>

\* mpi_mean line 170: num_data = allreduce(data.shape[0])
MeanCount(w) ==
    /\ mpi_pc[w] = "allreduce shape[0]"
    /\ Ready(1)
    /\ loc' = [loc EXCEPT ![w].s = Allreduce(1)[1]]
    /\ Post(w, "shape[0]", <<<<shard[w].shape[1]>>>>)
    /\ mpi_pc' = [mpi_pc EXCEPT ![w] = "m /= num_data"]
    /\ UNCHANGED <<mpi_fn, shard>>
    /\ UNCHANGED <<trainVars, samplerVars, gemmVars, as_list, componentVars>>

\* mpi_mean lines 171-172: m /= float(num_data); return m
MeanDivide(w) ==
    /\ mpi_pc[w] = "m /= num_data"
    /\ Ready(2)
    /\ LET num_data == Allreduce(2)[1][1]
           m == [num |-> loc[w].s, den |-> num_data]
       IN  /\ loc' = [loc EXCEPT ![w].num_data = num_data, ![w].m = m,
                                 ![w].ret = IF mpi_fn = "mpi_mean" THEN m ELSE @]
           /\ mpi_pc' = [mpi_pc EXCEPT ![w] =
                 IF mpi_fn = "mpi_mean" THEN "done" ELSE "Allreduce cov_local"]
    /\ UNCHANGED <<mpi_fn, shard, sent>>
    /\ UNCHANGED <<trainVars, samplerVars, gemmVars, as_list, componentVars>>

\* data - m, line 191, times the denominator of m
Centered(a, m) ==
    FromRows(<<"data_centered", a.buf>>,
             [i \in 1..a.shape[1] |->
                [j \in 1..a.shape[2] |-> m.den * Elem(a, i - 1, j - 1) - m.num[j]]],
             a.shape[2])

\* mpi_cov lines 191-194: data_centered = data - m;
\* cov_local = dot(data_centered.T, data_centered); Allreduce(cov_local, covmat)
CovAllreduce(w) ==
    /\ mpi_pc[w] = "Allreduce cov_local"
    /\ LET data_centered == Centered(shard[w], loc[w].m)
           cov_local == dot(T(data_centered), data_centered).value
       IN  Post(w, "cov_local", ToRows(cov_local))
    /\ mpi_pc' = [mpi_pc EXCEPT ![w] = "allreduce shape[0] again"]
    /\ UNCHANGED <<mpi_fn, shard, loc>>
    /\ UNCHANGED <<trainVars, samplerVars, gemmVars, as_list, componentVars>>

\* mpi_cov line 195: num_data = allreduce(data.shape[0])
CovCount(w) ==
    /\ mpi_pc[w] = "allreduce shape[0] again"
    /\ Ready(3)
    /\ loc' = [loc EXCEPT ![w].covmat = [num |-> Allreduce(3),
                                         den |-> loc[w].m.den * loc[w].m.den]]
    /\ Post(w, "shape[0]", <<<<shard[w].shape[1]>>>>)
    /\ mpi_pc' = [mpi_pc EXCEPT ![w] = "covmat /= num_data"]
    /\ UNCHANGED <<mpi_fn, shard>>
    /\ UNCHANGED <<trainVars, samplerVars, gemmVars, as_list, componentVars>>

\* mpi_cov lines 196-197: covmat /= float(num_data); return covmat
CovDivide(w) ==
    /\ mpi_pc[w] = "covmat /= num_data"
    /\ Ready(4)
    /\ LET num_data == Allreduce(4)[1][1]
           covmat == [num |-> loc[w].covmat.num, den |-> loc[w].covmat.den * num_data]
       IN  /\ loc' = [loc EXCEPT ![w].num_data = num_data, ![w].covmat = covmat,
                                 ![w].ret = IF mpi_fn = "mpi_cov" THEN covmat ELSE @]
           /\ mpi_pc' = [mpi_pc EXCEPT ![w] =
                 IF mpi_fn = "mpi_cov" THEN "done" ELSE "eigh"]
    /\ UNCHANGED <<mpi_fn, shard, sent>>
    /\ UNCHANGED <<trainVars, samplerVars, gemmVars, as_list, componentVars>>

\* PcaTrainer.train lines 481-488: the root decomposes covmat, the others
\* hold None; W = mpi.COMM.bcast(W)
PcaEigh(w) ==
    /\ mpi_pc[w] = "eigh"
    /\ LET e == Eigh(w, mpi_meancov(w).covmat)
       IN  IF is_root(w)
           THEN /\ loc' = [loc EXCEPT ![w].eigh = TRUE, ![w].W = e.W,
                                      ![w].eigval = e.eigval, ![w].eigvec = e.eigvec]
                /\ Post(w, "W", e.W)
           ELSE /\ loc' = [loc EXCEPT ![w].W = None, ![w].eigval = None,
                                      ![w].eigvec = None]
                /\ Post(w, "W", None)
    /\ mpi_pc' = [mpi_pc EXCEPT ![w] = "bcast eigval"]
    /\ UNCHANGED <<mpi_fn, shard>>
    /\ UNCHANGED <<trainVars, samplerVars, gemmVars, as_list, componentVars>>

\* line 489: eigval = mpi.COMM.bcast(eigval), once the bcast of W returned
PcaBcastEigval(w) ==
    /\ mpi_pc[w] = "bcast eigval"
    /\ Ready(5)
    /\ loc' = [loc EXCEPT ![w].W = bcast(5)]
    /\ Post(w, "eigval", loc[w].eigval)
    /\ mpi_pc' = [mpi_pc EXCEPT ![w] = "bcast eigvec"]
    /\ UNCHANGED <<mpi_fn, shard>>
    /\ UNCHANGED <<trainVars, samplerVars, gemmVars, as_list, componentVars>>

\* line 490: eigvec = mpi.COMM.bcast(eigvec), once the bcast of eigval returned
PcaBcastEigvec(w) ==
    /\ mpi_pc[w] = "bcast eigvec"
    /\ Ready(6)
    /\ loc' = [loc EXCEPT ![w].eigval = bcast(6)]
    /\ Post(w, "eigvec", loc[w].eigvec)
    /\ mpi_pc' = [mpi_pc EXCEPT ![w] = "return"]
    /\ UNCHANGED <<mpi_fn, shard>>
    /\ UNCHANGED <<trainVars, samplerVars, gemmVars, as_list, componentVars>>

\* line 491: return (W, -m), (eigval, eigvec, covmat)
PcaReturn(w) ==
    /\ mpi_pc[w] = "return"
    /\ Ready(7)
    /\ LET eigvec == bcast(7)
       IN  loc' = [loc EXCEPT ![w].eigvec = eigvec,
                              ![w].ret = [W |-> loc[w].W,
                                          m |-> mpi_meancov(w).m,
                                          eigval |-> loc[w].eigval,
                                          eigvec |-> eigvec,
                                          covmat |-> mpi_meancov(w).covmat]]
    /\ mpi_pc' = [mpi_pc EXCEPT ![w] = "done"]
    /\ UNCHANGED <<mpi_fn, shard, sent>>
    /\ UNCHANGED <<trainVars, samplerVars, gemmVars, as_list, componentVars>>

NextMpi ==
    \E w \in Workers :
        \/ MeanAllreduce(w)
        \/ MeanCount(w)
        \/ MeanDivide(w)
        \/ CovAllreduce(w)
        \/ CovCount(w)
        \/ CovDivide(w)
        \/ PcaEigh(w)
        \/ PcaBcastEigval(w)
        \/ PcaBcastEigvec(w)
        \/ PcaReturn(w)

\* ------------------------------------- claims on mpi_mean, mpi_cov, PcaTrainer
RECURSIVE ConcatUpTo(_)
ConcatUpTo(w) ==
    IF w = 0 THEN <<>> ELSE ConcatUpTo(w - 1) \o ToRows(shard[w])

\* the data of all workers as one array
AllData == ConcatUpTo(NumWorkers)

\* the sum over the rows x of all the data of x[i], and of x[i] * x[j]
Total1(i) == Sum([r \in 0..(Len(AllData) - 1) |-> AllData[r + 1][i]], Len(AllData))

Total2(i, j) ==
    Sum([r \in 0..(Len(AllData) - 1) |-> AllData[r + 1][i] * AllData[r + 1][j]],
        Len(AllData))

AllDone == \A w \in Workers : mpi_pc[w] = "done"

\* C11: on every worker mpi_mean returns the mean of the rows of all the
\* shards together, Total1 / L, and mpi_cov their covariance,
\* Total2 / L - (Total1 / L) (Total1 / L)^T, whatever the sizes of the shards,
\* and the workers return equal values.
C11_MeanCovOfAllData ==
    \A w \in Workers :
        mpi_pc[w] = "done" =>
            LET L == Len(AllData)
                ret == loc[w].ret
            IN  /\ \A v \in Workers : mpi_pc[v] = "done" => loc[v].ret = ret
                /\ mpi_fn = "mpi_mean" =>
                        \A i \in 1..Len(AllData[1]) :
                            ret.num[i] * L = Total1(i) * ret.den
                /\ mpi_fn = "mpi_cov" =>
                        \A i, j \in 1..Len(AllData[1]) :
                            ret.num[i][j] * L * L
                                = (L * Total2(i, j) - Total1(i) * Total1(j)) * ret.den

\* mpi_cov has returned on every worker, one shard being empty and another
\* holding two different rows
C11_Witness ==
    /\ mpi_fn = "mpi_cov"
    /\ AllDone
    /\ \E v, w \in Workers :
        /\ shard[v].shape[1] = 0
        /\ shard[w].shape[1] = 2
        /\ Elem(shard[w], 0, 0) # Elem(shard[w], 1, 0)
        /\ loc[v].ret.num[1][1] > 0

\* C15: in PcaTrainer.train only the root runs the eigendecomposition; every
\* worker makes the three broadcasts W, eigval, eigvec in this order after
\* the collectives of the mean and the covariance; every worker returns the
\* W, eigval and eigvec the root computed.
C15_RootDecomposesAllReceive ==
    \A w \in Workers :
        /\ loc[w].eigh => w = Root
        /\ mpi_fn = "PcaTrainer.train" /\ mpi_pc[w] = "done" =>
            LET e == Eigh(Root, loc[Root].covmat)
            IN  /\ loc[Root].eigh
                /\ [k \in 1..3 |-> sent[w][4 + k].name] = <<"W", "eigval", "eigvec">>
                /\ Len(sent[w]) = 7
                /\ loc[w].ret.W = e.W
                /\ loc[w].ret.eigval = e.eigval
                /\ loc[w].ret.eigvec = e.eigvec

\* PcaTrainer.train has returned on every worker
C15_Witness ==
    /\ mpi_fn = "PcaTrainer.train"
    /\ AllDone
    /\ \E w \in Workers : w # Root /\ loc[w].ret.W.by = Root

\* ------------------------------------------------- ConvLayer.process_dataset
\* Every worker calls process_dataset on its own shard with the same as_list;
\* log[w] lists the indices of the images the worker has processed.
InitDataset ==
    /\ as_list \in BOOLEAN
    /\ layer = <<>>
    /\ dataset_size \in [Workers -> 0..MaxImages]
    /\ pc = [w \in Workers |-> "start"]
    /\ loop_i = [w \in Workers |-> 0]
    /\ patches = [w \in Workers |-> SampledBatch]
    /\ dictionary = [w \in Workers |-> <<>>]
    /\ arrived = [w \in Workers |-> 0]
    /\ raised = [w \in Workers |-> "None"]
    /\ log = [w \in Workers |-> <<>>]

\* lines 143-146: dataset.image(0) and data[0] = temp need an image 0; on a
\* shard without image, data has no row 0 and the assignment raises IndexError
FirstImageRaises(size) == size = 0

\* line 139: the branch on as_list
DatasetEnter(w) ==
    /\ pc[w] = "start"
    /\ pc' = [pc EXCEPT ![w] = IF as_list THEN "list" ELSE "first"]
    /\ UNCHANGED <<layer, dataset_size, loop_i, patches, dictionary, arrived,
                   raised, log>>
    /\ UNCHANGED <<samplerVars, gemmVars, mpiVars, as_list, componentVars>>

\* lines 143-146: temp = self.process(dataset.image(0)); data[0] = temp
DatasetFirst(w) ==
    /\ pc[w] = "first"
    /\ IF FirstImageRaises(dataset_size[w])
       THEN Raise(w, "IndexError") /\ UNCHANGED <<loop_i, log>>
       ELSE /\ log' = [log EXCEPT ![w] = Append(@, 0)]
            /\ loop_i' = [loop_i EXCEPT ![w] = 1]
            /\ pc' = [pc EXCEPT ![w] = "rest"]
            /\ UNCHANGED raised
    /\ UNCHANGED <<layer, dataset_size, patches, dictionary, arrived>>
    /\ UNCHANGED <<samplerVars, gemmVars, mpiVars, as_list, componentVars>>

\* line 140, and lines 147-148: self.process(dataset.image(i)) for the next
\* i of the range, or the end of the range
DatasetNext(w) ==
    /\ pc[w] \in {"list", "rest"}
    /\ IF loop_i[w] < dataset_size[w]
       THEN /\ log' = [log EXCEPT ![w] = Append(@, loop_i[w])]
            /\ loop_i' = [loop_i EXCEPT ![w] = @ + 1]
            /\ UNCHANGED pc
       ELSE /\ pc' = [pc EXCEPT ![w] = "barrier"]
            /\ UNCHANGED <<loop_i, log>>
    /\ UNCHANGED <<layer, dataset_size, patches, dictionary, arrived, raised>>
    /\ UNCHANGED <<samplerVars, gemmVars, mpiVars, as_list, componentVars>>

\* line 149: the worker calls mpi.barrier()
DatasetBarrier(w) ==
    /\ pc[w] = "barrier"
    /\ arrived' = [arrived EXCEPT ![w] = @ + 1]
    /\ pc' = [pc EXCEPT ![w] = "in barrier"]
    /\ UNCHANGED <<layer, dataset_size, loop_i, patches, dictionary, raised, log>>
    /\ UNCHANGED <<samplerVars, gemmVars, mpiVars, as_list, componentVars>>

\* lines 149-151: the barrier returns, return data
DatasetReturn(w) ==
    /\ pc[w] = "in barrier"
    /\ BarrierReleased(w)
    /\ pc' = [pc EXCEPT ![w] = "done"]
    /\ UNCHANGED <<layer, dataset_size, loop_i, patches, dictionary, arrived,
                   raised, log>>
    /\ UNCHANGED <<samplerVars, gemmVars, mpiVars, as_list, componentVars>>

NextDataset ==
    \E w \in Workers :
        \/ DatasetEnter(w)
        \/ DatasetFirst(w)
        \/ DatasetNext(w)
        \/ DatasetBarrier(w)
        \/ DatasetReturn(w)

\* ---------------------------------------- claims on ConvLayer.process_dataset
\* C16: every worker that starts process_dataset issues the barrier exactly
\* once, after it has processed each image of its shard once, whatever the
\* size of the shard and the value of as_list: a worker is never out of the
\* function without its barrier, and a worker at the barrier has processed
\* the images 0 .. size-1.
C16_BarrierOnceAfterAllImages ==
    \A w \in Workers :
        /\ arrived[w] <= 1
        /\ pc[w] \in {"done", "raised"} => arrived[w] = 1
        /\ arrived[w] = 1 => log[w] = [k \in 1..dataset_size[w] |-> k - 1]

\* -------------------------------------------------------- Extractor.sample
\* One worker (the root; sample uses no collective) samples its shard; call
\* holds the arguments, log[Root] the images read, each with the value of
\* sampler.num_considered() at the time it was read.

\* line 187: np.maximum(int(num_patches / float(mpi.SIZE) + 0.5), 1)
PerWorker(num_patches) ==
    LET rounded == (2 * num_patches + NumWorkers) \div (2 * NumWorkers)
    IN  IF rounded > 1 THEN rounded ELSE 1

\* ratio_per_image, in tenths
Ratios == {1, 5, 10}

\* line 204: max(int(feat.shape[0] * ratio_per_image), 1)
NumSelected(rows, ratio) ==
    LET kept == (rows * ratio) \div 10
    IN  IF kept > 1 THEN kept ELSE 1

\* line 207: the test that ends the lazy sampling
EnoughConsidered(considered, num_patches) == considered > num_patches

InitSample ==
    /\ \E num_patches \in 0..(MaxCapacity * NumWorkers) :
       \E exhaustive \in BOOLEAN :
       \E ratio \in Ratios :
        /\ call = [op |-> "sample", num_patches |-> num_patches,
                   exhaustive |-> exhaustive, ratio_per_image |-> ratio,
                   warned |-> FALSE]
        /\ num_samples = PerWorker(num_patches)
    /\ self_ = [cls |-> "Extractor"]
    /\ current = 0
    /\ data = None
    /\ stream = {}
    /\ total = 0
    /\ result = Call("init", 0, "None", <<>>)
    /\ layer = <<>>
    /\ \E size \in 0..MaxImages :
        dataset_size = [w \in Workers |-> IF w = Root THEN size ELSE 0]
    /\ pc = [w \in Workers |-> IF w = Root THEN "loop" ELSE "idle"]
    /\ loop_i = [w \in Workers |-> 0]
    /\ patches = [w \in Workers |-> SampledBatch]
    /\ dictionary = [w \in Workers |-> <<>>]
    /\ arrived = [w \in Workers |-> 0]
    /\ raised = [w \in Workers |-> "None"]
    /\ log = [w \in Workers |-> <<>>]

\* lines 192-208, one turn of the loop: image i is read and processed into
\* feat, the sampler considers all its rows (exhaustive) or num_selected of
\* them in a random order, and the lazy mode breaks on EnoughConsidered
SampleImage ==
    /\ pc[Root] = "loop"
    /\ loop_i[Root] < dataset_size[Root]
    /\ \E rows \in 1..MaxBatch :
       \E feature \in [1..(IF call.exhaustive THEN rows
                           ELSE NumSelected(rows, call.ratio_per_image))
                       -> Rows(1)] :
       \E allocated \in Allocations(data, num_samples, 1) :
       \E out \in ConsiderOutcomes(allocated, current, num_samples, feature) :
        /\ data' = out.data
        /\ current' = out.current
        /\ stream' = stream \cup Range(feature)
        /\ total' = total + Len(feature)
        /\ log' = [log EXCEPT ![Root] =
                     Append(@, [image |-> loop_i[Root], considered |-> current])]
        /\ IF ~call.exhaustive /\ EnoughConsidered(out.current, num_samples)
           THEN pc' = [pc EXCEPT ![Root] = "return"] /\ UNCHANGED loop_i
           ELSE loop_i' = [loop_i EXCEPT ![Root] = @ + 1] /\ UNCHANGED pc
    /\ UNCHANGED <<num_samples, result>>
    /\ UNCHANGED <<layer, dataset_size, patches, dictionary, arrived, raised>>
    /\ UNCHANGED <<gemmVars, mpiVars, as_list, componentVars>>

\* line 192: the range is exhausted
SampleLoopEnd ==
    /\ pc[Root] = "loop"
    /\ loop_i[Root] >= dataset_size[Root]
    /\ pc' = [pc EXCEPT ![Root] = "return"]
    /\ UNCHANGED <<layer, dataset_size, loop_i, patches, dictionary, arrived,
                   raised, log>>
    /\ UNCHANGED <<samplerVars, gemmVars, mpiVars, as_list, componentVars>>

\* lines 209-212: the warning, and return sampler.get(), which raises
\* TypeError when no image was considered
SampleReturn ==
    /\ pc[Root] = "return"
    /\ call' = [call EXCEPT !.warned = current < num_samples]
    /\ IF data = None
       THEN /\ result' = Call("get", 0, "TypeError", <<>>)
            /\ Raise(Root, "TypeError")
       ELSE /\ result' = Call("get", 0, "None", Get(data, current, num_samples))
            /\ pc' = [pc EXCEPT ![Root] = "done"]
            /\ UNCHANGED raised
    /\ UNCHANGED <<num_samples, current, data, stream, total, self_>>
    /\ UNCHANGED <<layer, dataset_size, loop_i, patches, dictionary, arrived, log>>
    /\ UNCHANGED <<gemmVars, mpiVars, as_list>>

NextSample == SampleImage \/ SampleLoopEnd \/ SampleReturn

\* ------------------------------------------------- claims on Extractor.sample
\* C20: in the lazy mode (exhaustive False) sample reads no further image
\* once the number of patches the sampler has considered has reached the
\* number of patches required of this worker: every image is read while
\* num_considered() is still below that number.
C20_LazyStopsWhenRequiredReached ==
    ~call.exhaustive =>
        \A k \in 1..Len(log[Root]) : log[Root][k].considered < num_samples

\* ---------------------------------------------------------- FeatureEncoder
\* self_ is one encoder: its class, self.specs, self.trainer and
\* self.dictionary.  A specs dictionary is a record over the keys the
\* encoders read, each <<>> (key absent) or <<value>>.  An image is an array
\* [rows, channels]; a dictionary of codes is a sequence of rows, the pair
\* (W, b) of a linear encoder a tuple.  call records the last call.

Encoders ==
    {"LinearEncoderBW", "LinearEncoderWB", "InnerProductEncoder", "VQEncoder",
     "ThresholdEncoder", "TriangleEncoder", "LLCEncoder"}

\* the rows of the images
ImageRows == {<<0, 0>>, <<3, 0>>}

\* dictionaries of one or two codes; the distances of their codes to the rows
\* of the images are integers
Codebooks ==
    {<<<<3, 0>>>>, <<<<0, 0>>, <<3, 0>>>>, <<<<0, 4>>, <<3, 0>>>>,
     <<<<-3, 0>>, <<3, 0>>>>}

NoSpecs == [alpha |-> <<>>, twoside |-> <<>>, k |-> <<>>, D_norm |-> <<>>]

\* specs.get(key, default)
SpecsGet(specs, key, default) ==
    IF specs[key] = <<>> THEN default ELSE specs[key][1]

\* the truth value Python gives a value of specs['twoside']
Truthy(v) == v \notin {"False", "None", ""}

\* the specs an encoder of the class is built with: alpha in quarters
\* (0.25 is 1), twoside True, False or 'abs', k the number of neighbours
SpecsOf(cls) ==
    CASE cls = "ThresholdEncoder" ->
            {[NoSpecs EXCEPT !.alpha = a, !.twoside = t] :
                a \in {<<>>, <<-4>>, <<0>>, <<4>>},
                t \in {<<>>, <<"True">>, <<"False">>, <<"abs">>}}
      [] cls = "LLCEncoder" ->
            {[NoSpecs EXCEPT !.k = k] : k \in {<<>>, <<1>>, <<2>>}}
      [] OTHER -> {NoSpecs}

\* what the trainer of an encoder of the class returns as dictionary: a pair
\* (W, b) for the linear encoders, a matrix of codes for the others
DictionariesOf(cls) ==
    CASE cls = "LinearEncoderBW" ->
            {<<W, b>> : W \in {<<<<1, 0>>, <<0, 1>>>>, <<<<1>>, <<2>>>>},
                        b \in {<<0, 0>>, <<1, -1>>}}
      [] cls = "LinearEncoderWB" ->
            {<<<<<<1, 0>>, <<0, 1>>>>, <<1, -1>>>>, <<<<<<1>>, <<2>>>>, <<1>>>>}
      [] OTHER -> Codebooks

\* an array [Len(rows), c] holding the rows in column-major order
FromRowsF(buf, rows, c) ==
    [ndim |-> 2, shape |-> <<Len(rows), c>>, strides |-> <<1, Len(rows)>>,
     dtype |-> "float64", buf |-> buf,
     mem |-> [p \in 1..(Len(rows) * c) |->
                rows[1 + ((p - 1) % Len(rows))][1 + ((p - 1) \div Len(rows))]]]

\* row-major images
CImages ==
    {FromRows(<<"image">>, rows, 2) :
        rows \in UNION {[1..n -> ImageRows] : n \in 1..MaxRows}}

\* the images given to the encoders that call dot_image: row-major ones and
\* column-major ones (not C-contiguous when they have two rows or more)
Images ==
    CImages \cup
    {FromRowsF(<<"image">>, rows, 2) :
        rows \in UNION {[1..n -> ImageRows] : n \in 1..MaxRows}}

\* the array a after a[i, j] = rows[i][j] for all i, j, in its own storage
SetRows(a, rows) ==
    [a EXCEPT !.mem =
        [p \in DOMAIN a.mem |->
            LET ij == CHOOSE ij \in (0..(a.shape[1] - 1)) \X (0..(a.shape[2] - 1)) :
                        1 + ij[1] * a.strides[1] + ij[2] * a.strides[2] = p
            IN  rows[ij[1] + 1][ij[2] + 1]]]

\* rows + sign * b, b broadcast over the rows
AddBias(rows, b, sign) ==
    [i \in DOMAIN rows |-> [j \in DOMAIN rows[i] |-> rows[i][j] + sign * b[j]]]

\* mathutil.dot_image(image, B), lines 71-80, for an image [rows, channels]
dot_image(image, B) ==
    IF ~IsC(image) THEN GemmRaise("TypeError")
    ELSE gemm(1, image, B, "None", NoArray)

\* FeatureEncoder.__init__, lines 562-565
InitEncoder ==
    /\ \E cls \in Encoders : \E specs \in SpecsOf(cls) :
       \E trainer \in {"None", "trainer"} :
        self_ = [cls |-> cls, specs |-> specs, trainer |-> trainer,
                 dictionary |-> None]
    /\ call = [op |-> "__init__"]

\* the record of a process call: the encoder and the image before the call,
\* the image after it, the exception raised and the value returned
Processed(image, after, exc, output) ==
    [op |-> "process", self |-> self_, image |-> image, after |-> after,
     exc |-> exc, output |-> output]

\* FeatureEncoder.train(incoming_patches), lines 570-572
EncoderTrain ==
    /\ IF self_.trainer # "None"
       THEN \E D \in DictionariesOf(self_.cls) :
                self_' = [self_ EXCEPT !.dictionary = D]
       ELSE UNCHANGED self_
    /\ call' = [op |-> "train", self |-> self_]
    /\ UNCHANGED <<trainVars, samplerVars, gemmVars, mpiVars, as_list>>

\* LinearEncoderBW.process(image), lines 577-584
ProcessLinearBW ==
    /\ self_.cls = "LinearEncoderBW"
    /\ \E image \in Images :
        IF self_.dictionary = None
        THEN call' = Processed(image, image, "TypeError", None)
        ELSE LET W == FromRows(<<"W">>, self_.dictionary[1], Len(self_.dictionary[1][1]))
                 b == self_.dictionary[2]
                 added == SetRows(image, AddBias(ToRows(image), b, 1))
                 product == dot_image(added, W)
             IN  IF product.exc # "None"
                 THEN call' = Processed(image, added, product.exc, None)
                 ELSE call' = Processed(image,
                                  SetRows(added, AddBias(ToRows(added), b, -1)),
                                  "None", ToRows(product.value))
    /\ UNCHANGED self_
    /\ UNCHANGED <<trainVars, samplerVars, gemmVars, mpiVars, as_list>>

\* LinearEncoderWB.process(image), lines 589-593
ProcessLinearWB ==
    /\ self_.cls = "LinearEncoderWB"
    /\ \E image \in Images :
        IF self_.dictionary = None
        THEN call' = Processed(image, image, "TypeError", None)
        ELSE LET W == FromRows(<<"W">>, self_.dictionary[1], Len(self_.dictionary[1][1]))
                 b == self_.dictionary[2]
                 product == dot_image(image, W)
             IN  IF product.exc # "None"
                 THEN call' = Processed(image, image, product.exc, None)
                 ELSE call' = Processed(image, image, "None",
                                  AddBias(ToRows(product.value), b, 1))
    /\ UNCHANGED self_
    /\ UNCHANGED <<trainVars, samplerVars, gemmVars, mpiVars, as_list>>

\* the array of a dictionary of codes [N, channels]
Codes(D) == FromRows(<<"dictionary">>, D, Len(D[1]))

\* InnerProductEncoder.process(image), lines 602-603
ProcessInnerProduct ==
    /\ self_.cls = "InnerProductEncoder"
    /\ \E image \in Images :
        IF self_.dictionary = None
        THEN call' = Processed(image, image, "AttributeError", None)
        ELSE LET product == dot_image(image, T(Codes(self_.dictionary)))
             IN  IF product.exc # "None"
                 THEN call' = Processed(image, image, product.exc, None)
                 ELSE call' = Processed(image, image, "None", ToRows(product.value))
    /\ UNCHANGED self_
    /\ UNCHANGED <<trainVars, samplerVars, gemmVars, mpiVars, as_list>>

\* line 634 filling the second half with output instead of -output
TwoSide_SameSign(row) == row \o row

\* lines 629-635, one row: temp[:, :N] = output; temp[:, N:] = -output
TwoSide(row) == row \o [j \in DOMAIN row |-> -row[j]]

Abs(v) == IF v < 0 THEN -v ELSE v

\* lines 627-639, one row of the projections, before the threshold
Sided(specs, row) ==
    IF Truthy(SpecsGet(specs, "twoside", "True")) THEN TwoSide(row)
    ELSE IF specs.twoside[1] = "abs" THEN [j \in DOMAIN row |-> Abs(row[j])]
    ELSE row

\* lines 640-641 in quarters: output -= alpha; np.clip(output, 0., np.inf)
Thresholded(row, alpha) ==
    [j \in DOMAIN row |-> IF 4 * row[j] - alpha > 0 THEN 4 * row[j] - alpha ELSE 0]

\* ThresholdEncoder.process(image), lines 622-642; the output is in quarters
ProcessThreshold ==
    /\ self_.cls = "ThresholdEncoder"
    /\ \E image \in Images :
        IF self_.dictionary = None
        THEN call' = Processed(image, image, "AttributeError", None)
        ELSE LET alpha == SpecsGet(self_.specs, "alpha", 1)
                 product == dot_image(image, T(Codes(self_.dictionary)))
             IN  IF product.exc # "None"
                 THEN call' = Processed(image, image, product.exc, None)
                 ELSE call' = Processed(image, image, "None",
                        [i \in 1..image.shape[1] |->
                            Thresholded(Sided(self_.specs, ToRows(product.value)[i]),
                                        alpha)])
    /\ UNCHANGED self_
    /\ UNCHANGED <<trainVars, samplerVars, gemmVars, mpiVars, as_list>>

\* the square root of a perfect square
Sqrt(n) == CHOOSE r \in 0..n : r * r = n

SquaredDistance(x, d) ==
    Sum([k \in 0..(Len(x) - 1) |-> (x[k + 1] - d[k + 1]) * (x[k + 1] - d[k + 1])],
        Len(x))

\* metrics.euclidean_distances(X, Y): the matrix of the distances of the rows
\* of X to the rows of Y, and to the rows of X itself when Y is None
euclidean_distances(X, Y) ==
    LET codes == IF Y = None THEN X ELSE Y
    IN  [i \in DOMAIN X |->
            [j \in DOMAIN codes |-> Sqrt(SquaredDistance(X[i], codes[j]))]]

\* row.argmin(): the first index of the least entry, zero-based
ArgMin(row) ==
    (CHOOSE j \in DOMAIN row :
        /\ \A k \in DOMAIN row : row[j] <= row[k]
        /\ \A k \in DOMAIN row : k < j => row[k] > row[j]) - 1

\* VQEncoder.process(image), lines 608-616; image.reshape gives the rows of
\* the image whatever its layout
ProcessVQ ==
    /\ self_.cls = "VQEncoder"
    /\ \E image \in CImages :
        LET distance == euclidean_distances(ToRows(image), self_.dictionary)
            idx == [i \in DOMAIN distance |-> ArgMin(distance[i])]
            \* output[:, idx] = 1 sets the columns idx of every row
            output == [i \in DOMAIN distance |->
                        [j \in DOMAIN distance[i] |->
                            IF \E r \in DOMAIN idx : idx[r] = j - 1 THEN 1 ELSE 0]]
        IN  call' = Processed(image, image, "None", output)
    /\ UNCHANGED self_
    /\ UNCHANGED <<trainVars, samplerVars, gemmVars, mpiVars, as_list>>

\* TriangleEncoder.process(image), lines 657-664; the entries of the output
\* row are in N-ths, N the number of codes: N * max(0, mu - distance)
ProcessTriangle ==
    /\ self_.cls = "TriangleEncoder"
    /\ \E image \in CImages :
        LET distance == euclidean_distances(ToRows(image), self_.dictionary)
            encoded == [i \in DOMAIN distance |->
                LET N == Len(distance[i])
                    total_ == Sum([k \in 0..(N - 1) |-> distance[i][k + 1]], N)
                IN  [j \in 1..N |->
                        IF total_ - N * distance[i][j] > 0
                        THEN total_ - N * distance[i][j] ELSE 0]]
        IN  call' = Processed(image, image, "None", encoded)
    /\ UNCHANGED self_
    /\ UNCHANGED <<trainVars, samplerVars, gemmVars, mpiVars, as_list>>

\* (D**2).sum(1) / 2., line 684
HalfNorms(D) ==
    [num |-> [j \in DOMAIN D |->
                Sum([k \in 0..(Len(D[j]) - 1) |-> D[j][k + 1] * D[j][k + 1]],
                    Len(D[j]))],
     den |-> 2]

\* lines 683-685: specs['D_norm'] after the test of line 683
CachedNorms(specs, D) ==
    IF specs.D_norm = <<>> THEN <<HalfNorms(D)>> ELSE specs.D_norm

Negated(D) == [j \in DOMAIN D |-> [k \in DOMAIN D[j] |-> -D[j][k]]]

\* lines 686-687 in halves: distance = dot(X, -D.T); distance += D_norm,
\* D_norm broadcast over the rows (a D_norm of one entry over the columns too)
Scores(X, D, D_norm) ==
    LET cols == Len(X[1])
        product == dot(FromRows(<<"X">>, X, cols),
                       T(FromRows(<<"-D">>, Negated(D), cols))).value
    IN  [i \in DOMAIN X |->
            [j \in DOMAIN D |->
                2 * Elem(product, i - 1, j - 1)
                    + D_norm.num[IF Len(D_norm.num) = 1 THEN 1 ELSE j]]]

\* lines 689-693: the K first indices of a row in the order of its scores,
\* whichever way the sort breaks ties
FirstK(row, K) ==
    {S \in SUBSET DOMAIN row :
        /\ Cardinality(S) = K
        /\ \A a \in S : \A b \in DOMAIN row \ S : row[a] <= row[b]}

\* lines 698-706: the K x K system of row x is singular exactly when each of
\* the chosen codes equals x (C and its trace are then zero)
Singular(x, D, IDX) == \A j \in IDX : D[j] = x

\* LLCEncoder.process(image), lines 674-708.  An entry of the output is 1
\* where a weight w / w.sum() was written and 0 where the row was left zero.
ProcessLLC ==
    /\ self_.cls = "LLCEncoder"
    /\ \E image \in CImages :
        LET K == SpecsGet(self_.specs, "k", 5)
            D == self_.dictionary
            X == ToRows(image)
        IN  IF D = None
            THEN /\ call' = Processed(image, image, "TypeError", None)
                 /\ UNCHANGED self_
            ELSE LET cached == CachedNorms(self_.specs, D)
                     D_norm == cached[1]
                 IN  /\ self_' = [self_ EXCEPT !.specs.D_norm = cached]
                     /\ IF Len(D_norm.num) \notin {1, Len(D)} \/ K > Len(D)
                        THEN call' = Processed(image, image, "ValueError", None)
                        ELSE LET distance == Scores(X, D, D_norm)
                             IN  \E IDX \in [DOMAIN X -> SUBSET DOMAIN D] :
                                    /\ \A i \in DOMAIN X : IDX[i] \in FirstK(distance[i], K)
                                    /\ IF \E i \in DOMAIN X : Singular(X[i], D, IDX[i])
                                       THEN call' = Processed(image, image,
                                                        "LinAlgError", None)
                                       ELSE call' = Processed(image, image, "None",
                                                [i \in DOMAIN X |->
                                                    [j \in DOMAIN D |->
                                                        IF j \in IDX[i] THEN 1 ELSE 0]])
    /\ UNCHANGED <<trainVars, samplerVars, gemmVars, mpiVars, as_list>>

NextEncoder ==
    \/ EncoderTrain
    \/ ProcessLinearBW
    \/ ProcessLinearWB
    \/ ProcessInnerProduct
    \/ ProcessVQ
    \/ ProcessThreshold
    \/ ProcessTriangle
    \/ ProcessLLC

\* ------------------------------------------------ claims on the encoders
\* a process call of an encoder of the class has returned
Returned(cls) ==
    call.op = "process" /\ call.self.cls = cls /\ call.exc = "None"

\* the rows of the image of the call
CallRows == ToRows(call.image)

InnerProduct(x, d) == Sum([k \in 0..(Len(x) - 1) |-> x[k + 1] * d[k + 1]], Len(x))

\* the first index whose code is nearest to x
FirstNearest(x, D) ==
    CHOOSE j \in DOMAIN D :
        /\ \A k \in DOMAIN D : SquaredDistance(x, D[j]) <= SquaredDistance(x, D[k])
        /\ \A k \in DOMAIN D : k < j => SquaredDistance(x, D[k]) > SquaredDistance(x, D[j])

\* C12: for every row of the image VQEncoder.process returns the one-hot
\* vector of the first centroid at the least Euclidean distance of the row.
C12_VQOneHotAtFirstNearest ==
    (Returned("VQEncoder") /\ call.self.dictionary # None) =>
        \A i \in DOMAIN CallRows :
            call.output[i] =
                [j \in DOMAIN call.self.dictionary |->
                    IF j = FirstNearest(CallRows[i], call.self.dictionary)
                    THEN 1 ELSE 0]

\* a ThresholdEncoder configured two-side (twoside absent or True) returned
TwoSideReturned ==
    /\ Returned("ThresholdEncoder")
    /\ call.self.specs.twoside \in {<<>>, <<"True">>}

AtMostOneSideNonzero ==
    LET N == Len(call.self.dictionary)
    IN  \A i \in DOMAIN call.output :
            /\ Len(call.output[i]) = 2 * N
            /\ \A j \in 1..N : call.output[i][j] = 0 \/ call.output[i][N + j] = 0

\* C13 as stated: in two-side mode the output is 2N wide and, for every
\* alpha, at most one of output[j] and output[N+j] is nonzero.
C13_TwoSideAtMostOneNonzero == TwoSideReturned => AtMostOneSideNonzero

\* C13, amended: in two-side mode the output is 2N wide and, for every
\* alpha >= 0, at most one of output[j] and output[N+j] is nonzero.
C13_TwoSideAtMostOneNonzeroAlphaNotNegative ==
    (TwoSideReturned /\ SpecsGet(call.self.specs, "alpha", 1) >= 0) =>
        AtMostOneSideNonzero

\* a two-side call with alpha >= 0 returned a row with a nonzero entry in
\* each half
C13_Witness ==
    /\ TwoSideReturned
    /\ SpecsGet(call.self.specs, "alpha", 1) >= 0
    /\ \E i \in DOMAIN call.output :
       \E j, k \in 1..Len(call.self.dictionary) :
            call.output[i][j] > 0 /\ call.output[i][Len(call.self.dictionary) + k] > 0

\* C14: every row LLCEncoder.process returns has at most K nonzero entries,
\* all of them at indices of the K codes nearest to the input row by
\* Euclidean distance (fewer than K codes are strictly nearer).
C14_LLCSupportAmongKNearest ==
    Returned("LLCEncoder") =>
        LET D == call.self.dictionary
            K == SpecsGet(call.self.specs, "k", 5)
        IN  \A i \in DOMAIN call.output :
                LET support == {j \in DOMAIN D : call.output[i][j] # 0}
                IN  /\ Cardinality(support) <= K
                    /\ \A j \in support :
                        Cardinality({b \in DOMAIN D :
                            SquaredDistance(CallRows[i], D[b])
                                < SquaredDistance(CallRows[i], D[j])}) < K

\* C17: a process call leaves the encoder as it found it: self.dictionary
\* and self.specs are what they were before the call.
C17_ProcessLeavesEncoderUnchanged ==
    call.op = "process" =>
        /\ self_.dictionary = call.self.dictionary
        /\ self_.specs = call.self.specs

\* C18: with twoside 'abs' ThresholdEncoder.process returns N entries per
\* row, entry j being max(|x.d_j| - alpha, 0) (here in quarters).
C18_AbsIsSingleSide ==
    (Returned("ThresholdEncoder") /\ call.self.specs.twoside = <<"abs">>) =>
        LET D == call.self.dictionary
            alpha == SpecsGet(call.self.specs, "alpha", 1)
        IN  \A i \in DOMAIN call.output :
                call.output[i] =
                    [j \in DOMAIN D |->
                        LET v == 4 * Abs(InnerProduct(CallRows[i], D[j])) - alpha
                        IN  IF v > 0 THEN v ELSE 0]

\* C21: whatever train and process calls came before, the half squared
\* norms a process call of an LLCEncoder ranks the neighbours with (the value
\* of specs['D_norm'] it leaves) are those of the rows of the encoder's
\* current dictionary.
C21_CachedNormsOfCurrentDictionary ==
    (call.op = "process" /\ call.self.cls = "LLCEncoder"
        /\ call.self.dictionary # None) =>
        self_.specs.D_norm = <<HalfNorms(self_.dictionary)>>

\* C22: when LinearEncoderBW.process ends, by a return or by an exception,
\* the caller's image holds the values it held before the call.
C22_LinearBWRestoresImage ==
    (call.op = "process" /\ call.self.cls = "LinearEncoderBW") =>
        call.after = call.image

\* ---------------------------------------------------- PatchExtractor.process
\* self_ is a PatchExtractor with its psize and stride.  An image of shape
\* (height, width, channels) holds at (i, j, c) the number
\* (i * width + j) * channels + c, so that every pixel is different.

Pixel(shape, i, j, c) == (i * shape[2] + j) * shape[3] + c

\* image[i:i+psize[0], j:j+psize[1]].flat: rows first, channels last
Patch(shape, psize, i, j) ==
    [k \in 1..(psize[1] * psize[2] * shape[3]) |->
        LET c == (k - 1) % shape[3]
            dj == ((k - 1) \div shape[3]) % psize[2]
            di == (k - 1) \div (shape[3] * psize[2])
        IN  Pixel(shape, i + di, j + dj, c)]

\* range(0, stop, step) as the sequence of its values
RangeFrom0(stop, step) ==
    [k \in 1..(IF stop > 0 THEN ((stop - 1) \div step) + 1 ELSE 0) |-> (k - 1) * step]

\* line 313: patches[i, j] is indexed by the values i and j of the ranges
TargetIndex(idx, k) == idx[k]

\* __init__, lines 233-245
InitPatch ==
    /\ \E p0, p1 \in 1..MaxPatch : \E stride \in 1..MaxStride :
        self_ = [cls |-> "PatchExtractor", psize |-> <<p0, p1>>, stride |-> stride]
    /\ call = [op |-> "__init__"]

\* process(image), lines 290-314; entries of np.empty that are never
\* assigned hold whatever the memory held
PatchProcess ==
    \E height, width \in 1..MaxSide : \E channels \in 1..2 : \E garbage \in 0..1 :
        LET shape == <<height, width, channels>>
            psize == self_.psize
            idxh == RangeFrom0(height - psize[1] + 1, self_.stride)
            idxw == RangeFrom0(width - psize[2] + 1, self_.stride)
            new_height == Len(idxh)
            new_width == Len(idxw)
            length == psize[1] * psize[2] * channels
            Assigned(a, b) ==
                {kl \in (1..new_height) \X (1..new_width) :
                    TargetIndex(idxh, kl[1]) = a /\ TargetIndex(idxw, kl[2]) = b}
        IN  /\ call' =
                IF new_height * new_width = 0
                THEN [op |-> "process", shape |-> shape, exc |-> "ValueError",
                      output |-> None]
                ELSE IF \/ \E k \in 1..new_height : TargetIndex(idxh, k) >= new_height
                        \/ \E l \in 1..new_width : TargetIndex(idxw, l) >= new_width
                THEN [op |-> "process", shape |-> shape, exc |-> "IndexError",
                      output |-> None]
                ELSE [op |-> "process", shape |-> shape, exc |-> "None",
                      output |->
                        [a \in 1..new_height |-> [b \in 1..new_width |->
                            IF Assigned(a - 1, b - 1) = {}
                            THEN [n \in 1..length |-> garbage]
                            ELSE LET kl == CHOOSE kl \in Assigned(a - 1, b - 1) : TRUE
                                 IN  Patch(shape, psize, idxh[kl[1]], idxw[kl[2]])]]]
            /\ UNCHANGED self_
            /\ UNCHANGED <<trainVars, samplerVars, gemmVars, mpiVars, as_list>>

NextPatch == PatchProcess

\* ------------------------------------------- claims on PatchExtractor.process
\* C19: on an image at least as large as the patch, process returns
\* new_height x new_width patches of psize[0] * psize[1] * channels entries,
\* the patch at (a, b) being the one whose top-left pixel is
\* (a * stride, b * stride); it raises only on an image smaller than the patch.
C19_PatchGridAtStride ==
    call.op = "process" =>
        LET psize == self_.psize
            stride == self_.stride
            fits == call.shape[1] >= psize[1] /\ call.shape[2] >= psize[2]
            new_height == ((call.shape[1] - psize[1]) \div stride) + 1
            new_width == ((call.shape[2] - psize[2]) \div stride) + 1
        IN  /\ call.exc # "None" <=> ~fits
            /\ fits =>
                call.output = [a \in 1..new_height |-> [b \in 1..new_width |->
                    Patch(call.shape, psize, (a - 1) * stride, (b - 1) * stride)]]

\* ----------------------------------------------------------- specifications
\* no sampler is in use
IdleSampler ==
    /\ num_samples = 1
    /\ current = 0
    /\ data = None
    /\ stream = {}
    /\ total = 0
    /\ result = Call("init", 0, "None", <<>>)

\* no worker is inside a collective function
IdleMpi ==
    /\ mpi_fn = "None"
    /\ shard = [w \in Workers |-> <<>>]
    /\ mpi_pc = [w \in Workers |-> "idle"]
    /\ sent = [w \in Workers |-> <<>>]
    /\ loc = [w \in Workers |-> <<>>]

\* no component is being called
IdleComponent ==
    /\ self_ = <<>>
    /\ call = <<>>

InitSpecTrain ==
    InitTrain /\ IdleSampler /\ IdleGemm /\ IdleMpi /\ as_list = FALSE /\ IdleComponent

InitSpecSampler ==
    InitSampler /\ IdleTrain /\ IdleGemm /\ IdleMpi /\ as_list = FALSE /\ IdleComponent

InitSpecGemm ==
    InitGemm /\ IdleTrain /\ IdleSampler /\ IdleMpi /\ as_list = FALSE /\ IdleComponent

InitSpecMpi ==
    InitMpi /\ IdleTrain /\ IdleSampler /\ IdleGemm /\ as_list = FALSE /\ IdleComponent

InitSpecDataset ==
    InitDataset /\ IdleSampler /\ IdleGemm /\ IdleMpi /\ IdleComponent

InitSpecSample ==
    InitSample /\ IdleGemm /\ IdleMpi /\ as_list = FALSE

InitSpecEncoder ==
    InitEncoder /\ IdleTrain /\ IdleSampler /\ IdleGemm /\ IdleMpi /\ as_list = FALSE

InitSpecPatch ==
    InitPatch /\ IdleTrain /\ IdleSampler /\ IdleGemm /\ IdleMpi /\ as_list = FALSE

SpecTrain == InitSpecTrain /\ [][NextTrain]_vars

SpecSampler == InitSpecSampler /\ [][NextSampler]_vars

SpecGemm == InitSpecGemm /\ [][NextGemm]_vars

SpecMpi == InitSpecMpi /\ [][NextMpi]_vars

SpecDataset == InitSpecDataset /\ [][NextDataset]_vars

SpecSample == InitSpecSample /\ [][NextSample]_vars

SpecEncoder == InitSpecEncoder /\ [][NextEncoder]_vars

SpecPatch == InitSpecPatch /\ [][NextPatch]_vars

====
